---- MODULE Spec2Model ----
(***************************************************************************)
(* Model of the setStream -> executeStreamUpdate migration scripts:        *)
(*   src/fix_test_migration.py, src/fix_remaining_setstream.py,            *)
(*   src/fix_set_executor_test.py                                          *)
(*                                                                         *)
(* A file's text is a sequence of tokens.  Every token is the exact piece  *)
(* of text it stands for; the characters the scripts' regular expressions  *)
(* single out (comma, right parenthesis, double quote, semicolon) and the  *)
(* whitespace characters (" ", "\n") are always tokens of their own,       *)
(* so a character class decides a token exactly as it decides the         *)
(* characters of that token.                                               *)
(***************************************************************************)
EXTENDS Integers, Sequences, FiniteSets, TLC

\* ------------------------------------------------------------------ text

E == "engine.setStream("
Q == "\""
SP == " "
NL == "\n"

WsTokens == {SP, NL}

\* Four spaces, eight spaces.
SP4 == <<SP, SP, SP, SP>>
SP8 == SP4 \o SP4

\* Python's class \s, [^,], [^)], [^"] decided on one token.
InClass(tok, cls) ==
    CASE cls = "ws" -> tok \in WsTokens
      [] cls = "notcomma" -> tok # ","
      [] cls = "notrparen" -> tok # ")"
      [] cls = "notquote" -> tok # Q
      [] cls = "blank" -> tok = SP
      [] cls = "notrparen_notnl" -> tok # ")" /\ tok # NL

Max(S) == CHOOSE n \in S : \A m \in S : m <= n
Min(S) == CHOOSE n \in S : \A m \in S : n <= m

\* Concatenation of the pieces ss[lo..hi].
RECURSIVE FlattenRange(_, _, _)
FlattenRange(ss, lo, hi) ==
    IF lo > hi THEN <<>>
    ELSE IF lo = hi THEN ss[lo]
    ELSE LET mid == (lo + hi) \div 2
         IN FlattenRange(ss, lo, mid) \o FlattenRange(ss, mid + 1, hi)

Flatten(ss) == FlattenRange(ss, 1, Len(ss))

\* ---------------------------------------------------- regular expressions

\* Items of a pattern: a literal text (its tokens), or a greedy repetition of a
\* class (min 0 for *, 1 for +) that may be a capture group (grp > 0).
Lit(t) == [kind |-> "lit", toks |-> <<t>>, cls |-> "", min |-> 0, grp |-> 0]
Star(c) == [kind |-> "rep", toks |-> <<>>, cls |-> c, min |-> 0, grp |-> 0]
Plus(c) == [kind |-> "rep", toks |-> <<>>, cls |-> c, min |-> 1, grp |-> 0]
Group(g, item) == [item EXCEPT !.grp = g]

NoCaps == [g \in 1..5 |-> <<0, 0>>]
Fail == [ok |-> FALSE, end |-> 0, caps |-> NoCaps]

\* Length of the longest run of tokens of class cls that starts at pos.
RunLen(s, pos, cls) ==
    LET stop == CHOOSE j \in pos..(Len(s) + 1) :
                    /\ (j = Len(s) + 1 \/ ~InClass(s[j], cls))
                    /\ \A i \in pos..(j - 1) : InClass(s[i], cls)
    IN stop - pos

\* The groups of two consecutive parts of one match.
MergeCaps(a, b) == [g \in 1..5 |-> IF b[g] # <<0, 0>> THEN b[g] ELSE a[g]]

\* The ways a literal matches at pos: one or none.
MatchLit(it, s, pos) ==
    IF /\ pos + Len(it.toks) - 1 <= Len(s)
       /\ \A i \in 1..Len(it.toks) : s[pos + i - 1] = it.toks[i]
    THEN <<[end |-> pos + Len(it.toks), caps |-> NoCaps]>>
    ELSE <<>>

\* The ways a greedy repetition matches at pos, where the class runs for run
\* tokens: the longest first, down to its minimum.
MatchRep(it, pos, run) ==
    [j \in 1..(run - it.min + 1) |->
        [end |-> pos + (run - j + 1),
         caps |-> IF it.grp = 0 THEN NoCaps
                  ELSE [NoCaps EXCEPT ![it.grp] = <<pos, run - j + 1>>]]]

MatchItem(it, s, pos) ==
    IF it.kind = "lit" THEN MatchLit(it, s, pos)
    ELSE MatchRep(it, pos, RunLen(s, pos, it.cls))

\* The way l of a first part, followed by each way of the rest.
Prefixed(l, right) ==
    [j \in 1..Len(right) |->
        [end |-> right[j].end, caps |-> MergeCaps(l.caps, right[j].caps)]]

\* Every way items lo..hi of pat match at position pos of s, in the order re's
\* backtracking tries them: a greedy repetition takes the longest run first, and
\* a later item is varied before an earlier one.  end is the position after the
\* match; caps[g] = <<start, length>> of group g.
RECURSIVE MatchAll(_, _, _, _, _)
RECURSIVE MatchRest(_, _, _, _, _)

\* The ways left of a first part, each followed by the ways of items lo..hi.
MatchRest(pat, s, lo, hi, left) ==
    Flatten([i \in 1..Len(left) |->
                Prefixed(left[i], MatchAll(pat, s, lo, hi, left[i].end))])

MatchAll(pat, s, lo, hi, pos) ==
    IF lo > hi THEN <<[end |-> pos, caps |-> NoCaps]>>
    ELSE IF lo = hi THEN MatchItem(pat[lo], s, pos)
    ELSE MatchRest(pat, s, (lo + hi) \div 2 + 1, hi,
                   MatchAll(pat, s, lo, (lo + hi) \div 2, pos))

\* The first of the ways, as a match.
FirstWay(all) ==
    IF all = <<>> THEN Fail
    ELSE [ok |-> TRUE, end |-> all[1].end, caps |-> all[1].caps]

\* re's match of items k.. of pat at position pos of s.
MatchFrom(pat, s, k, pos) == FirstWay(MatchAll(pat, s, k, Len(pat), pos))

\* A necessary condition for pat to match at position pos, decided on its first
\* items: a first literal stands at pos, and a literal after a first repetition
\* stands where the repetition can end.
CanStart(pat, s, pos) ==
    LET it == pat[1]
    IN IF it.kind = "lit" THEN s[pos] = it.toks[1]
       ELSE IF Len(pat) >= 2 /\ pat[2].kind = "lit"
       THEN \E n \in it.min..RunLen(s, pos, it.cls) :
               pos + n <= Len(s) /\ s[pos + n] = pat[2].toks[1]
       ELSE TRUE

\* match.group(g)
GroupText(s, m, g) == SubSeq(s, m.caps[g][1], m.caps[g][1] + m.caps[g][2] - 1)

\* ------------------------------------------------ fix_test_migration.py

ANCHOR == "import org.kigalisim.engine.state.YearMatcher;"
IMPORT_STREAM_UPDATE == "import org.kigalisim.engine.support.StreamUpdate;"
IMPORT_BUILDER == "import org.kigalisim.engine.support.StreamUpdateBuilder;"

\* The identifier update<N>.
Upd(n) == "update" \o ToString(n)

\* The tokens whose text holds the substring 'StreamUpdate'.
MarkerTokens ==
    {IMPORT_STREAM_UPDATE, IMPORT_BUILDER, "StreamUpdate", "= new StreamUpdateBuilder(",
     "engine.executeStreamUpdate(", "// uses StreamUpdate"}

\* 'StreamUpdate' in content
HasMarker(content) == \E i \in 1..Len(content) : content[i] \in MarkerTokens

\* Mutant: only the first occurrence is replaced.
ReplaceFirstToken(content, tok, repl) ==
    LET at == {i \in 1..Len(content) : content[i] = tok}
    IN IF at = {} THEN content
       ELSE SubSeq(content, 1, Min(at) - 1) \o repl
            \o SubSeq(content, Min(at) + 1, Len(content))

\* content.replace(tok, repl) for a one-token needle: every occurrence.
ReplaceToken(content, tok, repl) ==
    Flatten([i \in 1..Len(content) |-> IF content[i] = tok THEN repl ELSE <<content[i]>>])

new_imports == <<ANCHOR, NL, IMPORT_STREAM_UPDATE, NL, IMPORT_BUILDER>>

\* Mutant: the marker is not looked for.
AddImportsUnchecked(content) ==
    IF \E i \in 1..Len(content) : content[i] = ANCHOR
    THEN ReplaceToken(content, ANCHOR, new_imports)
    ELSE content

\* The import step: only when the marker is absent and re.search finds the anchor.
AddImports(content) ==
    IF ~HasMarker(content) /\ (\E i \in 1..Len(content) : content[i] = ANCHOR)
    THEN ReplaceToken(content, ANCHOR, new_imports)
    ELSE content

\* Mutant: the whitespace after the separating commas is not skipped.
setstream_pattern_keep_ws ==
    << Lit(E), Group(1, Plus("notcomma")), Lit(","),
       Group(2, Plus("notcomma")), Lit(","),
       Group(3, Plus("notrparen")), Lit(")"), Lit(";") >>

setstream_pattern ==
    << Lit(E), Group(1, Plus("notcomma")), Lit(","), Star("ws"),
       Group(2, Plus("notcomma")), Lit(","), Star("ws"),
       Group(3, Plus("notrparen")), Lit(")"), Lit(";") >>

SeedMigration == 1

\* The f-string of replace_setstream: the continuation lines carry a fixed
\* 8 spaces and the last line a fixed 4 spaces.
replace_setstream(s, m, counter) ==
    <<"StreamUpdate", SP, Upd(counter), SP, "= new StreamUpdateBuilder(", ")", NL>>
    \o SP8 \o <<".setName(">> \o GroupText(s, m, 1) \o <<")", NL>>
    \o SP8 \o <<".setValue(">> \o GroupText(s, m, 2) \o <<")", NL>>
    \o SP8 \o <<".setYearMatcher(">> \o GroupText(s, m, 3) \o <<")", NL>>
    \o SP8 \o <<".inferSubtractRecycling(", ")", NL>>
    \o SP8 \o <<".build(", ")", ";", NL>>
    \o SP4 \o <<"engine.executeStreamUpdate(", Upd(counter), ")", ";">>

\* --------------------------------------------- fix_remaining_setstream.py

\* Mutant: the third argument has to follow on the line of the second comma.
pattern_one_line ==
    << Group(1, Plus("ws")), Lit(E), Lit(Q), Group(2, Plus("notquote")), Lit(Q),
       Lit(","), Star("ws"), Group(3, Plus("notcomma")), Lit(","), Star("blank"),
       Group(4, Plus("notrparen_notnl")), Lit(")"), Lit(";") >>

pattern ==
    << Group(1, Plus("ws")), Lit(E), Lit(Q), Group(2, Plus("notquote")), Lit(Q),
       Lit(","), Star("ws"), Group(3, Plus("notcomma")), Lit(","), Star("ws"),
       Group(4, Plus("notrparen")), Lit(")"), Lit(";") >>

multiline_pattern ==
    << Group(1, Plus("ws")), Lit(E), Lit(Q), Group(2, Plus("notquote")), Lit(Q),
       Lit(","), Star("ws"), Group(3, Plus("notcomma")), Lit(","), Star("ws"),
       Lit(NL), Star("ws"), Group(4, Plus("notrparen")), Lit(")"), Lit(";") >>

SeedRemaining == 10

\* The f-string shared by replace_setstream and replace_multiline_setstream
\* of fix_single_thread_engine_test: every line starts with group 1.
IndentedBlock(indent, counter, name, value, year_matcher) ==
    indent \o <<"StreamUpdate", SP, Upd(counter), SP, "= new StreamUpdateBuilder(", ")", NL>>
    \o indent \o SP4 \o <<".setName(", Q>> \o name \o <<Q, ")", NL>>
    \o indent \o SP4 \o <<".setValue(">> \o value \o <<")", NL>>
    \o indent \o SP4 \o <<".setYearMatcher(">> \o year_matcher \o <<")", NL>>
    \o indent \o SP4 \o <<".inferSubtractRecycling(", ")", NL>>
    \o indent \o SP4 \o <<".build(", ")", ";", NL>>
    \o indent \o <<"engine.executeStreamUpdate(", Upd(counter), ")", ";">>

replace_setstream_remaining(s, m, counter) ==
    IndentedBlock(GroupText(s, m, 1), counter, GroupText(s, m, 2),
                  GroupText(s, m, 3), GroupText(s, m, 4))

replace_multiline_setstream(s, m, counter) ==
    IndentedBlock(GroupText(s, m, 1), counter, GroupText(s, m, 2),
                  GroupText(s, m, 3), GroupText(s, m, 4))

old_call ==
    SP4 \o <<E, Q, "import", Q, ",", SP, "new EngineNumber(BigDecimal.valueOf(50", ")",
             ",", SP, Q, "kg", Q, ")", ",", SP, "Optional.empty(", ")", ")", ";">>

new_call ==
    SP4 \o <<"StreamUpdate", SP, "importUpdate", SP, "= new StreamUpdateBuilder(", ")", NL>>
    \o SP8 \o <<".setName(", Q, "import", Q, ")", NL>>
    \o SP8 \o <<".setValue(", "new EngineNumber(BigDecimal.valueOf(50", ")",
                 ",", SP, Q, "kg", Q, ")", ")", NL>>
    \o SP8 \o <<".setYearMatcher(", "Optional.empty(", ")", ")", NL>>
    \o SP8 \o <<".inferSubtractRecycling(", ")", NL>>
    \o SP8 \o <<".build(", ")", ";", NL>>
    \o SP4 \o <<"engine.executeStreamUpdate(", "importUpdate", ")", ";">>

\* ------------------------------------------------ fix_set_executor_test.py

\* A literal text of several tokens, as a pattern of one item.
Lits(toks) == <<[kind |-> "lit", toks |-> toks, cls |-> "", min |-> 0, grp |-> 0]>>

\* \s*\n
EOL == <<Star("ws"), Lit(NL)>>

AssertComment == <<"//", SP, "Assert">>
DeclStreamCaptor ==
    <<"ArgumentCaptor<String>", SP, "streamCaptor", SP, "=", SP,
      "ArgumentCaptor.forClass(String.class", ")", ";">>
DeclValueCaptor ==
    <<"ArgumentCaptor<EngineNumber>", SP, "valueCaptor", SP, "=", SP,
      "ArgumentCaptor.forClass(EngineNumber.class", ")", ";">>
DeclUpdateCaptor ==
    <<"ArgumentCaptor<StreamUpdate>", SP, "updateCaptor", SP, "=", SP,
      "ArgumentCaptor.forClass(StreamUpdate.class", ")", ";">>
VerifyTwice ==
    <<"verify(mockEngine", ",", SP, "times(2", ")", ")",
      ".executeStreamUpdate(updateCaptor.capture(", ")", ")", ";">>
DeclCapturedUpdates ==
    <<"List<StreamUpdate>", SP, "capturedUpdates", SP, "=", SP,
      "updateCaptor.getAllValues(", ")", ";">>

\* // Check domestic call, // Check import call
CheckCall(stream) == <<"//", SP, "Check", SP, stream, SP, "call">>

\* .get(0, .get(1
Get(k) == ".get(" \o ToString(k)

\* What follows assertEquals(<first argument> in the old assertions ...
OldName(k) == <<",", SP, "streamCaptor.getAllValues(", ")", Get(k), ")", ")", ";">>
OldValue(k) ==
    <<",", SP, "valueCaptor.getAllValues(", ")", Get(k), ")", ".getValue(", ")", ")", ";">>
OldUnits(k) ==
    <<",", SP, "valueCaptor.getAllValues(", ")", Get(k), ")", ".getUnits(", ")", ")", ";">>

\* ... and in the new ones.
NewName(k) == <<",", SP, "capturedUpdates" \o Get(k), ")", ".getName(", ")", ")", ";">>
NewValue(k) ==
    <<",", SP, "capturedUpdates" \o Get(k), ")", ".getValue(", ")", ".getValue(", ")",
      ")", ";">>
NewUnits(k) ==
    <<",", SP, "capturedUpdates" \o Get(k), ")", ".getValue(", ")", ".getUnits(", ")",
      ")", ";">>

AssertEquals == "assertEquals("
Quoted(x) == <<Q>> \o x \o <<Q>>

\* The three assertion lines of one stream in old_pattern: value group gv, units
\* group gu.
OldChecks(stream, k, gv, gu) ==
    <<Plus("ws")>> \o Lits(CheckCall(stream))
       \o <<Lit(SP), Lit("("), Plus("notrparen"), Lit(")")>> \o EOL
    \o <<Plus("ws")>> \o Lits(<<AssertEquals>> \o Quoted(<<stream>>) \o OldName(k)) \o EOL
    \o <<Plus("ws"), Lit(AssertEquals), Group(gv, Plus("notcomma"))>>
       \o Lits(OldValue(k)) \o EOL
    \o <<Plus("ws"), Lit(AssertEquals), Lit(Q), Group(gu, Plus("notquote")), Lit(Q)>>
       \o Lits(OldUnits(k))

old_pattern ==
    <<Group(1, Plus("ws"))>> \o Lits(AssertComment) \o EOL
    \o <<Plus("ws")>> \o Lits(DeclStreamCaptor) \o EOL
    \o <<Plus("ws")>> \o Lits(DeclValueCaptor) \o EOL
    \o EOL
    \o <<Plus("ws")>> \o Lits(DeclUpdateCaptor) \o EOL
    \o <<Plus("ws")>> \o Lits(VerifyTwice) \o EOL
    \o EOL
    \o OldChecks("domestic", 0, 2, 3) \o EOL
    \o EOL
    \o OldChecks("import", 1, 4, 5)

\* The f-string of replace_assert_block: every line that is not empty starts
\* with group 1.
AssertBlock(indent, domestic_value, units1, import_value, units2) ==
    indent \o AssertComment \o <<NL>>
    \o indent \o DeclUpdateCaptor \o <<NL>>
    \o indent \o VerifyTwice \o <<NL, NL>>
    \o indent \o DeclCapturedUpdates \o <<NL, NL>>
    \o indent \o CheckCall("domestic") \o <<NL>>
    \o indent \o <<AssertEquals>> \o Quoted(<<"domestic">>) \o NewName(0) \o <<NL>>
    \o indent \o <<AssertEquals>> \o domestic_value \o NewValue(0) \o <<NL>>
    \o indent \o <<AssertEquals>> \o Quoted(units1) \o NewUnits(0) \o <<NL, NL>>
    \o indent \o CheckCall("import") \o <<NL>>
    \o indent \o <<AssertEquals>> \o Quoted(<<"import">>) \o NewName(1) \o <<NL>>
    \o indent \o <<AssertEquals>> \o import_value \o NewValue(1) \o <<NL>>
    \o indent \o <<AssertEquals>> \o Quoted(units2) \o NewUnits(1)

replace_assert_block(s, m) ==
    AssertBlock(GroupText(s, m, 1), GroupText(s, m, 2), GroupText(s, m, 3),
                GroupText(s, m, 4), GroupText(s, m, 5))

\* The patterns of the assertion-by-assertion substitutions.
name_pattern(stream, k) == Lits(<<AssertEquals>> \o Quoted(<<stream>>) \o OldName(k))
value_pattern(k) == <<Lit(AssertEquals), Group(1, Plus("notcomma"))>> \o Lits(OldValue(k))
units_pattern(k) ==
    <<Lit(AssertEquals), Lit(Q), Group(1, Plus("notquote")), Lit(Q)>> \o Lits(OldUnits(k))

\* The patterns of the two removals.
stream_captor_pattern == <<Plus("ws")>> \o Lits(DeclStreamCaptor) \o EOL
value_captor_pattern == <<Plus("ws")>> \o Lits(DeclValueCaptor) \o EOL

\* The substitutions of fix_set_executor_test, in the order they run.
SetExecutorPasses ==
    <<"assert_block", "name0", "name1", "value0", "value1", "units0", "units1",
      "stream_captor", "value_captor">>

\* ------------------------------------------------------------- re.sub

\* The pattern and the replacement function of each substitution pass.
PatternOf(pass) ==
    CASE pass = "migration" -> setstream_pattern
      [] pass = "single" -> pattern
      [] pass = "multiline" -> multiline_pattern
      [] pass = "floor" -> Lits(old_call)
      [] pass = "assert_block" -> old_pattern
      [] pass = "name0" -> name_pattern("domestic", 0)
      [] pass = "name1" -> name_pattern("import", 1)
      [] pass = "value0" -> value_pattern(0)
      [] pass = "value1" -> value_pattern(1)
      [] pass = "units0" -> units_pattern(0)
      [] pass = "units1" -> units_pattern(1)
      [] pass = "stream_captor" -> stream_captor_pattern
      [] pass = "value_captor" -> value_captor_pattern

ReplacementOf(pass, s, m, counter) ==
    CASE pass = "migration" -> replace_setstream(s, m, counter)
      [] pass = "single" -> replace_setstream_remaining(s, m, counter)
      [] pass = "multiline" -> replace_multiline_setstream(s, m, counter)
      [] pass = "floor" -> new_call
      [] pass = "assert_block" -> replace_assert_block(s, m)
      [] pass = "name0" -> <<AssertEquals>> \o Quoted(<<"domestic">>) \o NewName(0)
      [] pass = "name1" -> <<AssertEquals>> \o Quoted(<<"import">>) \o NewName(1)
      [] pass = "value0" -> <<AssertEquals>> \o GroupText(s, m, 1) \o NewValue(0)
      [] pass = "value1" -> <<AssertEquals>> \o GroupText(s, m, 1) \o NewValue(1)
      [] pass = "units0" -> <<AssertEquals>> \o Quoted(GroupText(s, m, 1)) \o NewUnits(0)
      [] pass = "units1" -> <<AssertEquals>> \o Quoted(GroupText(s, m, 1)) \o NewUnits(1)
      [] pass = "stream_captor" -> <<>>
      [] pass = "value_captor" -> <<>>

\* The passes whose replacement function does counter += 1.
CountingPasses == {"migration", "single", "multiline"}

\* nonlocal counter; counter += 1 (the other replacements allocate nothing)
NextCounter(pass, counter) == IF pass \in CountingPasses THEN counter + 1 ELSE counter

\* The leading whitespace of the line that holds position epos of s.
LineIndent(s, epos) ==
    LET nls == {i \in 1..(epos - 1) : s[i] = NL}
        ls == IF nls = {} THEN 1 ELSE Max(nls) + 1
        n == RunLen(s, ls, "ws")
    IN SubSeq(s, ls, ls + (IF ls + n > epos THEN epos - ls ELSE n) - 1)

\* Position of the engine.setStream( token of a match that starts at p.
CallPos(pass, m, p) ==
    IF pass \in {"single", "multiline"} THEN p + m.caps[1][2]
    ELSE IF pass = "floor" THEN p + Len(SP4) ELSE p

\* The matches of pat at or after pos: where each starts, and the match.
MatchesFrom(pat, s, pos) ==
    {x \in {[p |-> q, m |-> MatchFrom(pat, s, 1, q)] :
               q \in {r \in pos..Len(s) : CanStart(pat, s, r)}} : x.m.ok}

\* The leftmost of them.
Leftmost(matches) == CHOOSE x \in matches : \A y \in matches : x.p <= y.p

\* What is recorded of a match: where it was (from, to), what it matched, the
\* counter it got, and where its block lies in the output (ofrom, oto).
Site(pass, s, counter, p, m, block, ofrom) ==
    [pass |-> pass, n |-> counter, from |-> p, to |-> m.end - 1,
     matched |-> SubSeq(s, p, m.end - 1),
     groups |-> [g \in 1..5 |-> GroupText(s, m, g)],
     lineIndent |-> LineIndent(s, CallPos(pass, m, p)),
     block |-> block, ofrom |-> ofrom, oto |-> ofrom + Len(block) - 1]

\* The text before the match, its block, and the substitution of the rest.
Emit(before, site, rest) ==
    [out |-> before \o site.block \o rest.out,
     sites |-> <<site>> \o rest.sites,
     counter |-> rest.counter]

\* re.sub(pattern, repl, s): the leftmost match at or after pos is replaced and
\* the scan goes on after it.  opos is the position in the output of s[pos].
RECURSIVE SubFrom(_, _, _, _, _, _)
RECURSIVE SubAt(_, _, _, _, _, _, _)
RECURSIVE SubBlock(_, _, _, _, _, _, _, _)

SubBlock(pass, pat, s, pos, ofrom, counter, x, block) ==
    Emit(SubSeq(s, pos, x.p - 1),
         Site(pass, s, counter, x.p, x.m, block, ofrom),
         SubFrom(pass, pat, s, x.m.end, ofrom + Len(block), NextCounter(pass, counter)))

SubAt(pass, pat, s, pos, opos, counter, x) ==
    SubBlock(pass, pat, s, pos, opos + (x.p - pos), counter, x,
             ReplacementOf(pass, s, x.m, counter))

SubNext(pass, pat, s, pos, opos, counter, matches) ==
    IF matches = {}
    THEN [out |-> SubSeq(s, pos, Len(s)), sites |-> <<>>, counter |-> counter]
    ELSE SubAt(pass, pat, s, pos, opos, counter, Leftmost(matches))

SubFrom(pass, pat, s, pos, opos, counter) ==
    SubNext(pass, pat, s, pos, opos, counter, MatchesFrom(pat, s, pos))

Sub(pass, s, counter) == SubFrom(pass, PatternOf(pass), s, 1, 1, counter)

\* ------------------------------------------------------------ drivers

\* Mutant: the file is written whether or not the text changed.
ShouldWriteAlways(content, original_content) == TRUE

\* if content != original_content
ShouldWrite(content, original_content) == content # original_content

\* A transformation's result: the text before the substitutions, and theirs.
After(mid, r) == [mid |-> mid, out |-> r.out, sites |-> r.sites]

\* The substitution of fix_test_file, on the text with the imports.
Migrated(withImports) == After(withImports, Sub("migration", withImports, SeedMigration))

\* The text transformation of fix_test_file: imports, then the substitution.
MigrateText(content) == Migrated(AddImports(content))

\* Mutant: the multi-line pass starts again from the seed.
MultilineSeedReset(counterAfterSingle) == SeedRemaining

\* The counter the multi-line pass starts from: the nonlocal counter as the
\* single-line pass left it.
MultilineSeed(counterAfterSingle) == counterAfterSingle

\* The results of the two passes as one.
BothPasses(r1, r2) == [mid |-> r1.out, out |-> r2.out, sites |-> r1.sites \o r2.sites]

\* The multi-line pass, on what the single-line pass left.
MultilinePass(r1) == BothPasses(r1, Sub("multiline", r1.out, MultilineSeed(r1.counter)))

\* The text transformation of fix_single_thread_engine_test: the single-line
\* substitution, then the multi-line one on its output.
RemainingText(content) == MultilinePass(Sub("single", content, SeedRemaining))

\* The text transformation of fix_floor_operation_test.
FloorText(content) == After(content, Sub("floor", content, 0))

\* The sites of one substitution before those of the later ones.
Later(sites, rest) == [out |-> rest.out, sites |-> sites \o rest.sites]

\* The text transformation of fix_set_executor_test: the nine substitutions one
\* after the other, each on the output of the one before.
RECURSIVE SetExecutorFrom(_, _)
RECURSIVE SetExecutorOn(_, _)

SetExecutorOn(r, k) == Later(r.sites, SetExecutorFrom(r.out, k + 1))

SetExecutorFrom(content, k) ==
    IF k > Len(SetExecutorPasses) THEN [out |-> content, sites |-> <<>>]
    ELSE SetExecutorOn(Sub(SetExecutorPasses[k], content, 0), k)

SetExecutorText(content) == After(content, SetExecutorFrom(content, 1))

\* --------------------------------------------------------------- state

P_CHANGE == "/home/ubuntu/kigali-sim/engine/src/test/java/org/kigalisim/lang/operation/ChangeOperationTest.java"
P_FLOOR == "/home/ubuntu/kigali-sim/engine/src/test/java/org/kigalisim/lang/operation/FloorOperationTest.java"
P_GETSTREAM == "/home/ubuntu/kigali-sim/engine/src/test/java/org/kigalisim/lang/operation/GetStreamOperationTest.java"
P_RECHARGE == "/home/ubuntu/kigali-sim/engine/src/test/java/org/kigalisim/lang/operation/RechargeOperationTest.java"
P_REPLACE == "/home/ubuntu/kigali-sim/engine/src/test/java/org/kigalisim/lang/operation/ReplaceOperationTest.java"
P_RETIRE == "/home/ubuntu/kigali-sim/engine/src/test/java/org/kigalisim/lang/operation/RetireOperationTest.java"
P_ENGINE == "/home/ubuntu/kigali-sim/engine/src/test/java/org/kigalisim/engine/SingleThreadEngineTest.java"
P_RECALC == "/home/ubuntu/kigali-sim/engine/src/test/java/org/kigalisim/engine/recalc/RecalcOperationBuilderIntegrationTest.java"
P_CHANGE_EXECUTOR == "/home/ubuntu/kigali-sim/engine/src/test/java/org/kigalisim/engine/support/ChangeExecutorTest.java"
P_SET_EXECUTOR == "/home/ubuntu/kigali-sim/engine/src/test/java/org/kigalisim/engine/support/SetExecutorTest.java"

\* main()'s list, in its order.
test_files ==
    <<P_CHANGE, P_FLOOR, P_GETSTREAM, P_RECHARGE, P_REPLACE, P_RETIRE, P_ENGINE,
      P_RECALC, P_CHANGE_EXECUTOR>>

\* The listed paths, and every path a driver opens.
Listed == {test_files[i] : i \in 1..Len(test_files)}
Paths == Listed \cup {P_SET_EXECUTOR}

VARIABLES
    files,        \* path -> the text of the file (<<>> when there is none)
    present,      \* the paths that exist (os.path.exists)
    last,         \* the latest driver invocation: what it read, did and printed
    ranOn,        \* path -> the driver that ran on it latest ("none")
    pc,           \* "idle", or main()'s position: "loop", "done"
    idx,          \* main(): index into test_files of the path visited next
    total_fixed,  \* main(): total_fixed
    out,          \* main(): the lines printed so far
    files0,       \* the texts before anything ran
    present0      \* the existing paths before anything ran

vars == <<files, present, last, ranOn, pc, idx, total_fixed, out, files0, present0>>

NoRun ==
    [driver |-> "none", path |-> "", read |-> <<>>, mid |-> <<>>, result |-> <<>>,
     sites |-> <<>>, wrote |-> FALSE, ret |-> "None", msg |-> "", prior |-> "none"]

\* One driver invocation on path p: read, transform (t), write back only on a
\* change, print.  returns says whether the driver returns the outcome
\* (fix_test_file) or nothing.
Invocation(driver, p, t, returns) ==
    LET changed == ShouldWrite(t.out, files[p])
    IN [driver |-> driver, path |-> p, read |-> files[p], mid |-> t.mid,
        result |-> t.out, sites |-> t.sites, wrote |-> changed,
        ret |-> IF ~returns THEN "None" ELSE IF changed THEN "True" ELSE "False",
        msg |-> IF changed THEN "Fixed" ELSE "No changes needed",
        prior |-> ranOn[p]]

\* The state change of an invocation: f.write(content) when it wrote.
Apply(run) ==
    /\ files' = IF run.wrote THEN [files EXCEPT ![run.path] = run.result] ELSE files
    /\ last' = run
    /\ ranOn' = [ranOn EXCEPT ![run.path] = run.driver]
    /\ UNCHANGED <<present, files0, present0>>

fix_test_file(file_path) ==
    Invocation("fix_test_file", file_path, MigrateText(files[file_path]), TRUE)

fix_single_thread_engine_test ==
    Invocation("fix_single_thread_engine_test", P_ENGINE, RemainingText(files[P_ENGINE]), FALSE)

fix_floor_operation_test ==
    Invocation("fix_floor_operation_test", P_FLOOR, FloorText(files[P_FLOOR]), FALSE)

fix_set_executor_test ==
    Invocation("fix_set_executor_test", P_SET_EXECUTOR,
               SetExecutorText(files[P_SET_EXECUTOR]), FALSE)

\* ------------------------------------------------------------- actions

\* fix_test_file(path) on an existing listed file.
FixTestFile(p) ==
    /\ pc = "idle"
    /\ p \in present
    /\ Apply(fix_test_file(p))
    /\ UNCHANGED <<pc, idx, total_fixed, out>>

FixSingleThreadEngineTest ==
    /\ pc = "idle"
    /\ P_ENGINE \in present
    /\ Apply(fix_single_thread_engine_test)
    /\ UNCHANGED <<pc, idx, total_fixed, out>>

FixFloorOperationTest ==
    /\ pc = "idle"
    /\ P_FLOOR \in present
    /\ Apply(fix_floor_operation_test)
    /\ UNCHANGED <<pc, idx, total_fixed, out>>

FixSetExecutorTest ==
    /\ pc = "idle"
    /\ P_SET_EXECUTOR \in present
    /\ Apply(fix_set_executor_test)
    /\ UNCHANGED <<pc, idx, total_fixed, out>>

Line(msg, path, n) == [msg |-> msg, path |-> path, n |-> n]

\* Mutant: every existing file counts, changed or not.
CountVisited(total, exists, ret) == IF exists THEN total + 1 ELSE total

\* total_fixed after one visited path.
Count(total, exists, ret) == IF exists /\ ret = "True" THEN total + 1 ELSE total

\* if fix_test_file(file_path): total_fixed += 1
Visited(file_path, run) ==
    /\ Apply(run)
    /\ total_fixed' = Count(total_fixed, TRUE, run.ret)
    /\ out' = Append(out, Line(run.msg, file_path, 0))

\* print(f"File not found: {file_path}")
Missing(file_path) ==
    /\ total_fixed' = Count(total_fixed, FALSE, "None")
    /\ out' = Append(out, Line("File not found", file_path, 0))
    /\ UNCHANGED <<files, present, last, ranOn, files0, present0>>

\* One iteration of main()'s loop over test_files.
MainVisit ==
    /\ pc = "loop"
    /\ idx <= Len(test_files)
    /\ IF test_files[idx] \in present
       THEN Visited(test_files[idx], fix_test_file(test_files[idx]))
       ELSE Missing(test_files[idx])
    /\ idx' = idx + 1
    /\ pc' = pc

\* print(f"\nTotal files fixed: {total_fixed}")
MainFinish ==
    /\ pc = "loop"
    /\ idx > Len(test_files)
    /\ out' = Append(out, Line("Total files fixed", "", total_fixed))
    /\ pc' = "done"
    /\ UNCHANGED <<files, present, last, ranOn, idx, total_fixed, files0, present0>>

\* ------------------------------------------------------- initial files

Ind4 == <<NL>> \o SP4
Ind8 == <<NL>> \o SP8
QA == <<Q, "a", Q>>

\* engine.setStream(a1,a2,a3); with the three argument texts as given.
CallText(a1, a2, a3) == <<E>> \o a1 \o <<",">> \o a2 \o <<",">> \o a3 \o <<")", ";">>

SegPlain == Ind4 \o CallText(QA, <<SP, "v">>, <<SP, "y">>)
SegPadded == Ind4 \o CallText(QA, <<SP, "v", SP>>, <<SP, SP, "y", SP>>)
SegLoose == Ind4 \o CallText(<<SP>> \o QA \o <<SP>>, <<"v">>, <<SP, SP>>)
SegDeepMulti == Ind8 \o CallText(QA, <<SP, "v">>, Ind8 \o SP4 \o <<"y">>)
SegCommaName == Ind4 \o CallText(<<Q, "a", ",", ",", "b", Q>>, <<SP, "v">>, <<SP, "y">>)
SegNameE == Ind4 \o CallText(<<Q, "x", SP, E, Q>>, <<SP, "v">>, <<SP, "y">>)
SegOld == <<NL>> \o old_call
SegJunk == Ind4 \o <<"foo(", ")", ";">>

CallSegs == <<SegPlain, SegPadded, SegLoose, SegDeepMulti, SegCommaName, SegNameE>>

SegAnchor == <<NL, ANCHOR>>
SegMarker == <<NL, "// uses StreamUpdate">>
SegOpen == <<NL, E, "a">>
SegTail == <<",", SP, "p", ",", SP, "q", ")", ";">>
SegQuoteTail == <<Q, ",", SP, "b", ",", NL, SP, "c", ")", ";">>

\* What stands before the call segments of a file.
Heads == {<<>>, SegAnchor, SegMarker \o SegAnchor, SegAnchor \o SegAnchor}

MaxSegs == 2
MaxRepeat == 10
MaxPresent == 3

\* Every concatenation of at most n of the segments segs taken in their order
\* (a segment may repeat), from segment lo on.
RECURSIVE Bodies(_, _, _)
Bodies(segs, n, lo) ==
    IF n = 0 THEN {<<>>}
    ELSE {<<>>} \cup UNION {{segs[i] \o b : b \in Bodies(segs, n - 1, i)} :
                              i \in lo..Len(segs)}

\* k times the segment.
RECURSIVE Repeat(_, _)
Repeat(seg, k) == IF k = 0 THEN <<>> ELSE seg \o Repeat(seg, k - 1)

\* The files: a head and call segments; a call site inside the arguments of an
\* unfinished call; call segments before a text that ends like a call; many
\* plain call sites, then one that only fix_single_thread_engine_test matches.
Library ==
    {h \o b : h \in Heads, b \in Bodies(CallSegs, MaxSegs, 1)}
    \cup {SegOpen \o b \o SegTail : b \in Bodies(CallSegs, 1, 1)}
    \cup {b \o SegQuoteTail : b \in Bodies(CallSegs, 1, 1)}
    \cup {SegJunk, SegOld \o SegPlain}
    \cup {Repeat(SegPlain, k) \o SegCommaName : k \in (MaxRepeat - 1)..MaxRepeat}

FloorLibrary == {SegJunk, SegOld, SegOld \o SegOld, SegAnchor \o SegOld \o SegPlain}

\* The half-migrated assert block old_pattern is written for, with a blank line
\* where the pattern has one.
SegOldBlock ==
    Ind4 \o AssertComment
    \o Ind4 \o DeclStreamCaptor
    \o Ind4 \o DeclValueCaptor \o <<NL>>
    \o Ind4 \o DeclUpdateCaptor
    \o Ind4 \o VerifyTwice \o <<NL>>
    \o Ind4 \o CheckCall("domestic") \o <<SP, "(", "60%", ")">>
    \o Ind4 \o <<AssertEquals>> \o Quoted(<<"domestic">>) \o OldName(0)
    \o Ind4 \o <<AssertEquals, "d">> \o OldValue(0)
    \o Ind4 \o <<AssertEquals>> \o Quoted(<<"kg">>) \o OldUnits(0) \o <<NL>>
    \o Ind4 \o CheckCall("import") \o <<SP, "(", "40%", ")">>
    \o Ind4 \o <<AssertEquals>> \o Quoted(<<"import">>) \o OldName(1)
    \o Ind4 \o <<AssertEquals, "i">> \o OldValue(1)
    \o Ind4 \o <<AssertEquals>> \o Quoted(<<"kg">>) \o OldUnits(1)

\* Old assertions and declarations outside the full block.
SegOldNames ==
    Ind4 \o <<AssertEquals>> \o Quoted(<<"domestic">>) \o OldName(0)
    \o Ind4 \o <<AssertEquals>> \o Quoted(<<"import">>) \o OldName(1)
SegOldValues ==
    Ind4 \o <<AssertEquals, "d">> \o OldValue(0)
    \o Ind4 \o <<AssertEquals, "i">> \o OldValue(1)
SegOldUnits ==
    Ind4 \o <<AssertEquals>> \o Quoted(<<"kg">>) \o OldUnits(0)
    \o Ind4 \o <<AssertEquals>> \o Quoted(<<"mt">>) \o OldUnits(1)
SegDecls == Ind4 \o DeclStreamCaptor \o Ind4 \o DeclValueCaptor \o <<NL>>

\* An old name assertion with the declaration of streamCaptor between its
\* arguments.
SegSplitName ==
    Ind4 \o <<AssertEquals>> \o Quoted(<<"domestic">>) \o <<",">>
    \o Ind4 \o DeclStreamCaptor \o <<NL, SP>>
    \o <<"streamCaptor.getAllValues(", ")", Get(0), ")", ")", ";">>

\* A block as replace_assert_block writes it.
SegNewBlock == AssertBlock(Ind4, <<"d">>, <<"kg">>, <<"i">>, <<"kg">>)

SetSegs ==
    <<SegOldBlock, SegOldNames, SegOldValues, SegOldUnits, SegDecls, SegSplitName,
      SegNewBlock, SegJunk>>

SetLibrary == Bodies(SetSegs, MaxSegs, 1)

StartFiles ==
    {<<P_ENGINE, c>> : c \in Library} \cup {<<P_FLOOR, c>> : c \in FloorLibrary}
    \cup {<<P_SET_EXECUTOR, c>> : c \in SetLibrary}

Init ==
    /\ \E f \in StartFiles :
          /\ files = [p \in Paths |-> IF p = f[1] THEN f[2] ELSE <<>>]
          /\ present = {f[1]}
    /\ last = NoRun
    /\ ranOn = [p \in Paths |-> "none"]
    /\ pc = "idle"
    /\ idx = 1
    /\ total_fixed = 0
    /\ out = <<>>
    /\ files0 = files
    /\ present0 = present

Next ==
    \/ \E p \in Listed : FixTestFile(p)
    \/ FixSingleThreadEngineTest
    \/ FixFloorOperationTest
    \/ FixSetExecutorTest

Spec == Init /\ [][Next]_vars

\* The batch: main() of fix_test_migration.py over files that exist or not.
BatchLibrary == {SegAnchor \o SegPlain, SegJunk}

InitBatch ==
    /\ \E S \in {T \in SUBSET Listed : Cardinality(T) <= MaxPresent} :
          \E c \in [S -> BatchLibrary] :
             /\ present = S
             /\ files = [p \in Paths |-> IF p \in S THEN c[p] ELSE <<>>]
    /\ last = NoRun
    /\ ranOn = [p \in Paths |-> "none"]
    /\ pc = "loop"
    /\ idx = 1
    /\ total_fixed = 0
    /\ out = <<>>
    /\ files0 = files
    /\ present0 = present

NextBatch == MainVisit \/ MainFinish

SpecBatch == InitBatch /\ [][NextBatch]_vars

\* -------------------------------------------------------------- claims

Toks(s) == {s[i] : i \in 1..Len(s)}
Occurrences(s, tok) == Cardinality({i \in 1..Len(s) : s[i] = tok})
IsAt(s, i, piece) == i + Len(piece) - 1 <= Len(s) /\ SubSeq(s, i, i + Len(piece) - 1) = piece

\* The sites of the latest invocation that allocated an identifier update<N>.
CountedSites == SelectSeq(last.sites, LAMBDA x : x.pass \in CountingPasses)

\* The identifier a block declares: the token after "StreamUpdate" and a space.
DeclaredId(block) ==
    block[Min({i \in 1..Len(block) : block[i] = "StreamUpdate"}) + 2]

\* C2: fix_test_file writes the file if and only if the transformed text differs
\* from the text it read; it returns True and prints "Fixed" exactly when it
\* wrote, returns False and prints "No changes needed" exactly when it did not,
\* and then the file on disk is the text that was read.
C2_WriteBackOnlyOnChange ==
    last.driver = "fix_test_file" =>
        /\ last.wrote <=> (last.result # last.read)
        /\ (last.ret = "True") <=> last.wrote
        /\ (last.ret = "False") <=> ~last.wrote
        /\ (last.msg = "Fixed") <=> last.wrote
        /\ (last.msg = "No changes needed") <=> ~last.wrote
        /\ files[last.path] = (IF last.wrote THEN last.result ELSE last.read)

\* A second run that wrote nothing, after a first run that changed the file.
C2_Witness ==
    /\ last.driver = "fix_test_file"
    /\ last.prior = "fix_test_file"
    /\ ~last.wrote
    /\ last.ret = "False"
    /\ files[last.path] # files0[last.path]

\* C4: within one invocation of a migration driver no two generated identifiers
\* update<N> are equal; the counter only increases from site to site, and in
\* fix_single_thread_engine_test the multi-line pass goes on from the counter
\* the single-line pass left, so identifiers of the two passes never coincide.
C4_IdentifierUniqueness ==
    LET sites == CountedSites IN
    /\ \A i, j \in 1..Len(sites) :
          i # j => DeclaredId(sites[i].block) # DeclaredId(sites[j].block)
    /\ \A i \in 1..Len(sites) :
          /\ DeclaredId(sites[i].block) = Upd(sites[i].n)
          /\ i > 1 => sites[i].n > sites[i - 1].n
    /\ \A i, j \in 1..Len(sites) :
          sites[i].pass = "single" /\ sites[j].pass = "multiline"
              => sites[i].n < sites[j].n

\* Both passes of fix_single_thread_engine_test allocated an identifier.
C4_Witness ==
    /\ last.driver = "fix_single_thread_engine_test"
    /\ \E i, j \in 1..Len(last.sites) :
          last.sites[i].pass = "single" /\ last.sites[j].pass = "multiline"

\* The listed paths that existed and whose text is no longer what it was.
ChangedListed ==
    {i \in 1..Len(test_files) :
        test_files[i] \in present0 /\ files[test_files[i]] # files0[test_files[i]]}

\* The states of C9: main() visits the listed paths in the listed order, one at a time; a path
\* that does not exist is reported "File not found" and skipped, nothing is
\* touched for it and every later path is still processed; the final total is the
\* number of listed existing files that fix_test_file changed.
C9_BatchOrchestration ==
    /\ present = present0
    /\ pc = "loop" => Len(out) = idx - 1
    /\ \A i \in 1..Len(test_files) :
          LET p == test_files[i] IN
          IF i <= Len(out)
          THEN /\ out[i].path = p
               /\ p \notin present0 =>
                     out[i].msg = "File not found" /\ files[p] = files0[p]
               /\ p \in present0 =>
                     /\ out[i].msg \in {"Fixed", "No changes needed"}
                     /\ (out[i].msg = "Fixed") <=> (files[p] # files0[p])
          ELSE files[p] = files0[p]
    /\ pc = "done" =>
          /\ Len(out) = Len(test_files) + 1
          /\ out[Len(out)].msg = "Total files fixed"
          /\ out[Len(out)].n = Cardinality(ChangedListed)
          /\ total_fixed = Cardinality(ChangedListed)

\* A visit of a missing path changes no file, and the visit goes to the next path.
C9_MissingSkipped ==
    (pc = "loop" /\ idx <= Len(test_files) /\ test_files[idx] \notin present)
    => /\ files' = files
       /\ present' = present
       /\ total_fixed' = total_fixed
       /\ idx' = idx + 1
       /\ pc' = "loop"

\* C9: main() visits the listed paths in the listed order, one at a time; a
\* missing path is reported "File not found" and skipped without touching any
\* file and without ending the batch; the final total is the number of listed
\* existing files that fix_test_file changed.
C9_Batch == []C9_BatchOrchestration /\ [][C9_MissingSkipped]_vars

\* A finished batch in which a missing path came before a file that was fixed,
\* and some file needed no change.
C9_Witness ==
    /\ pc = "done"
    /\ \E i, j, k \in 1..Len(test_files) :
          /\ i < j
          /\ out[i].msg = "File not found"
          /\ out[j].msg = "Fixed"
          /\ out[k].msg = "No changes needed"
    /\ out[Len(out)].n >= 1

AnchorWithImports == <<ANCHOR, NL, IMPORT_STREAM_UPDATE, NL, IMPORT_BUILDER>>

\* C8 as stated: on a file without the marker that holds the anchor line, the
\* two import lines are in the result exactly once, right after the anchor.
C8_ImportsExactlyOnce ==
    (/\ last.driver = "fix_test_file"
     /\ ~HasMarker(last.read)
     /\ ANCHOR \in Toks(last.read))
    => /\ Occurrences(last.result, IMPORT_STREAM_UPDATE) = 1
       /\ Occurrences(last.result, IMPORT_BUILDER) = 1
       /\ \A i \in 1..Len(last.result) :
             last.result[i] = ANCHOR => IsAt(last.result, i, AnchorWithImports)

\* C8, amended: on a file without the marker, the two import lines are in the
\* result once for each occurrence of the anchor line (exactly once when the
\* anchor occurs once), right after it, and the anchor lines are as they were,
\* however many call sites are rewritten; on a file that holds the marker the
\* import step changes nothing.
C8_ImportsOncePerAnchor ==
    last.driver = "fix_test_file" =>
        IF HasMarker(last.read)
        THEN /\ last.mid = last.read
             /\ Occurrences(last.result, IMPORT_STREAM_UPDATE)
                    = Occurrences(last.read, IMPORT_STREAM_UPDATE)
             /\ Occurrences(last.result, IMPORT_BUILDER)
                    = Occurrences(last.read, IMPORT_BUILDER)
        ELSE /\ Occurrences(last.result, ANCHOR) = Occurrences(last.read, ANCHOR)
             /\ Occurrences(last.result, IMPORT_STREAM_UPDATE)
                    = Occurrences(last.read, ANCHOR)
             /\ Occurrences(last.result, IMPORT_BUILDER)
                    = Occurrences(last.read, ANCHOR)
             /\ \A i \in 1..Len(last.result) :
                   last.result[i] = ANCHOR => IsAt(last.result, i, AnchorWithImports)

\* One anchor, no marker, two call sites rewritten, the imports inserted once.
C8_Witness ==
    /\ last.driver = "fix_test_file"
    /\ ~HasMarker(last.read)
    /\ Occurrences(last.read, ANCHOR) = 1
    /\ Len(last.sites) = 2
    /\ Occurrences(last.result, IMPORT_STREAM_UPDATE) = 1

\* ----- the arguments of a call site, read off the matched text

IsWs(tok) == tok \in WsTokens
FirstFrom(x, from, tok) == Min({i \in from..Len(x) : x[i] = tok})

\* Leading and trailing whitespace removed.
Trim(x) ==
    LET keep == {i \in 1..Len(x) : ~IsWs(x[i])}
    IN IF keep = {} THEN <<>> ELSE SubSeq(x, Min(keep), Max(keep))

\* Leading whitespace removed, except that a text that is all whitespace keeps
\* its last character.
DropLeading(x) ==
    LET keep == {i \in 1..Len(x) : ~IsWs(x[i])}
    IN IF keep = {} THEN SubSeq(x, Len(x), Len(x)) ELSE SubSeq(x, Min(keep), Len(x))

\* The three argument texts of a matched call site, as written between
\* engine.setStream( and the closing ");": the first ends at the first comma (in
\* fix_single_thread_engine_test: at the closing quote of the name), the second at
\* the next comma, the third is the rest.
RawArgs(site) ==
    LET e == FirstFrom(site.matched, 1, E)
        body == SubSeq(site.matched, e + 1, Len(site.matched) - 2)
        c1 == IF site.pass = "migration" THEN FirstFrom(body, 1, ",")
              ELSE FirstFrom(body, 2, Q) + 1
        c2 == FirstFrom(body, c1 + 1, ",")
    IN <<SubSeq(body, 1, c1 - 1), SubSeq(body, c1 + 1, c2 - 1),
         SubSeq(body, c2 + 1, Len(body))>>

\* The block's .setName(..), .setValue(..), .setYearMatcher(..) lines hold exactly
\* the texts a1, a2, a3, in this order, with only whitespace between the lines.
BlockHolds(block, a1, a2, a3) ==
    LET p1 == <<".setName(">> \o a1 \o <<")", NL>>
        p2 == <<".setValue(">> \o a2 \o <<")", NL>>
        p3 == <<".setYearMatcher(">> \o a3 \o <<")", NL>>
        i == FirstFrom(block, 1, ".setName(")
        j == i + Len(p1) + RunLen(block, i + Len(p1), "ws")
        k == j + Len(p2) + RunLen(block, j + Len(p2), "ws")
    IN IsAt(block, i, p1) /\ IsAt(block, j, p2) /\ IsAt(block, k, p3)

NewlinesBefore(x, i) == Cardinality({j \in 1..(i - 1) : x[j] = NL})

\* The k-th line of x (the text between the newlines), k >= 1.
LineOf(x, k) == SelectSeq([i \in 1..Len(x) |-> IF x[i] # NL /\ NewlinesBefore(x, i) = k - 1
                                                THEN <<x[i]>> ELSE <<>>],
                          LAMBDA t : t # <<>>)
LineCount(x) == Occurrences(x, NL) + 1
LineText(x, k) == Flatten(LineOf(x, k))

\* C6: a call site with leading indentation I gets a block of exactly the 7
\* template lines; lines 2 to 6 start with I plus the 4-space continuation
\* indent, the last line with exactly I.
C6_IndentationPreserved ==
    \A n \in 1..Len(CountedSites) :
        LET site == CountedSites[n]
            I == site.lineIndent
        IN /\ LineCount(site.block) = 7
           /\ \A k \in 2..6 :
                 LET line == LineText(site.block, k) IN
                 /\ IsAt(line, 1, I \o SP4)
                 /\ Len(line) > Len(I) + 4
                 /\ ~IsWs(line[Len(I) + 5])
           /\ IsAt(LineText(site.block, 7), 1, I \o <<"engine.executeStreamUpdate(">>)

\* ----- runs in succession

\* C1: a driver run twice in succession on the same file leaves the text as it
\* was after the first run; the second run prints "No changes needed" and does
\* not write.
C1_Idempotence ==
    (last.driver # "none" /\ last.prior = last.driver)
    => /\ ~last.wrote
       /\ last.result = last.read
       /\ last.msg = "No changes needed"
       /\ files[last.path] = last.read

\* The tokens that hold the text a driver's patterns look for.
Leftover(driver) ==
    CASE driver \in {"fix_test_file", "fix_single_thread_engine_test"} -> {E}
      [] driver = "fix_floor_operation_test" -> {}
      [] driver = "fix_set_executor_test" ->
           {"streamCaptor", "valueCaptor", "streamCaptor.getAllValues(",
            "valueCaptor.getAllValues("}

\* C1, amended: a driver run twice in succession on the same file leaves the text
\* as it was after the first run, prints "No changes needed" and does not write,
\* when the first run left none of the text the driver looks for: no
\* engine.setStream( (fix_test_file, fix_single_thread_engine_test: every
\* engine.setStream( of the file started a call site the first run rewrote), no
\* streamCaptor or valueCaptor (fix_set_executor_test);
\* fix_floor_operation_test does so on every file.
C1_IdempotentWithoutLeftover ==
    (/\ last.driver # "none"
     /\ last.prior = last.driver
     /\ Toks(last.read) \cap Leftover(last.driver) = {})
    => /\ ~last.wrote
       /\ last.result = last.read
       /\ last.msg = "No changes needed"
       /\ files[last.path] = last.read

\* A second run of fix_single_thread_engine_test that found nothing to do, after
\* a first run that rewrote the file.
C1_Witness ==
    /\ last.driver = "fix_single_thread_engine_test"
    /\ last.prior = "fix_single_thread_engine_test"
    /\ E \notin Toks(last.read)
    /\ last.read # files0[last.path]
    /\ ~last.wrote

\* No position of the text starts a match of the deprecated call pattern.
NoCallSite(text) ==
    \A p \in 1..Len(text) : ~MatchFrom(setstream_pattern, text, 1, p).ok

\* C3: on a file without any occurrence of the deprecated call pattern,
\* fix_test_file leaves the file as it is, prints "No changes needed" and returns
\* False.
C3_NoOpOnAbsentPattern ==
    (last.driver = "fix_test_file" /\ NoCallSite(last.read))
    => /\ ~last.wrote
       /\ last.ret = "False"
       /\ last.msg = "No changes needed"
       /\ files[last.path] = last.read

\* C5: when fix_single_thread_engine_test runs on a file that fix_test_file
\* migrated before, no identifier it generates is already in the file.
C5_SeedOffsetAvoidsCollision ==
    (last.driver = "fix_single_thread_engine_test" /\ last.prior = "fix_test_file")
    => \A n \in 1..Len(last.sites) :
          DeclaredId(last.sites[n].block) \notin Toks(last.read)

\* C10: in fix_single_thread_engine_test the multi-line pass matches no text that
\* the single-line pass emitted: no replacement block is itself rewritten.
C10_NoDoubleProcessing ==
    last.driver = "fix_single_thread_engine_test"
    => \A a, b \in 1..Len(last.sites) :
          (last.sites[a].pass = "single" /\ last.sites[b].pass = "multiline")
          => (last.sites[b].to < last.sites[a].ofrom
              \/ last.sites[b].from > last.sites[a].oto)

SinglePassSites == SelectSeq(last.sites, LAMBDA x : x.pass = "single")
MultilinePassSites == SelectSeq(last.sites, LAMBDA x : x.pass = "multiline")

\* C10, amended: the single-line pass runs first, as one global substitution in
\* which no call site is rewritten twice, and it rewrites the multi-line call
\* sites too; the multi-line pass matches nothing when every engine.setStream(
\* of the file started a call site the single-line pass rewrote, and whenever it
\* does match, its match overlaps a block the single-line pass emitted.
C10_MultilineOnlyOnEmitted ==
    last.driver = "fix_single_thread_engine_test"
    => /\ last.sites = SinglePassSites \o MultilinePassSites
       /\ \A a, b \in 1..Len(SinglePassSites) :
             a < b => SinglePassSites[a].to < SinglePassSites[b].from
       /\ Occurrences(last.read, E) = Len(SinglePassSites)
             => MultilinePassSites = <<>>
       /\ \A b \in 1..Len(MultilinePassSites) :
             \E a \in 1..Len(SinglePassSites) :
                /\ MultilinePassSites[b].to >= SinglePassSites[a].ofrom
                /\ MultilinePassSites[b].from <= SinglePassSites[a].oto

\* The single-line pass rewrote a call site whose third argument stands on the
\* next line, and the multi-line pass found nothing.
C10_Witness ==
    /\ last.driver = "fix_single_thread_engine_test"
    /\ MultilinePassSites = <<>>
    /\ \E a \in 1..Len(SinglePassSites) :
          LET m == SinglePassSites[a].matched
              e == FirstFrom(m, 1, E)
          IN \E i \in (e + 1)..Len(m) : m[i] = NL

====
